---- MODULE Spec2Model ----
(***************************************************************************)
(* Model of the VerifyNet weight converter (scripts/convert_verify_net.py) *)
(* and of the two tensor layout transforms it uses.                        *)
(*                                                                         *)
(* A tensor is a record [lib, shape, data]: lib says which library owns it *)
(* ("numpy" or "torch"), shape is the sequence of its dimensions and data  *)
(* its elements in row-major (C) order.  Axes and indices are 0-based as   *)
(* in the source; sequences are 1-based, hence the +1 in places.           *)
(***************************************************************************)
EXTENDS Integers, Sequences, FiniteSets, TLC

VARIABLES
    tf_model,      \* source model: tf layer name -> layer (kind, weights) or NoLayer
    torch_model,   \* destination model's parameters and buffers: key -> tensor
    state_dict,    \* the parameter dictionary being filled: key -> tensor
    idx,           \* position of the loop in layer_map (1..Len(layer_map)+1)
    pc,            \* "loop", "commit", "save", "print", "done", "raised", "idle"
    error,         \* the exception that left convert_verify_net, or NoError
    output_file,   \* the dictionary written by torch.save, or NoFile
    stdout,        \* the lines printed
    events,        \* history: what the run has done, in order
    t_in,          \* transform check: the input array
    t_fn,          \* transform check: "conv" or "dense" or "none"
    t_out,         \* transform check: the Result of the transform
    t_pc,          \* transform check: "ready", "returned", "raised", "idle"
    h_weights,     \* parity harness: tf_weights, the flat list of the source model's weights
    h_state_dict,  \* parity harness: the dictionary it fills
    h_model,       \* parity harness: its destination model's parameters
    h_pc,          \* parity harness: number of the next assignment; 0 when idle
    h_error,       \* parity harness: name of the exception that ended it, or ""
    _BACKENDS,     \* registry: the dict, as the sequence of its items in insertion order
    env,           \* registry: value of FINGERFLOW_BACKEND, or Unset
    r_last,        \* registry: the last call and what it returned or raised
    e_fn,          \* export: the entry point called
    e_training,    \* export: the model's training flag
    e_batch,       \* export: batch size of the sample
    e_call,        \* export: the arguments torch.onnx.export was called with
    e_pc,          \* export: "ready", "exporting", "returned", "raised", "idle"
    e_exc,         \* export: the exception that reached the caller
    m_device,      \* measure_throughput: the harness device type, "cpu" or "cuda"
    m_repeats,     \* measure_throughput: the repeats argument
    m_batch,       \* measure_throughput: anchor_batch.shape[0], the dataset size
    m_pc,          \* measure_throughput: the statement about to run; "idle"
    m_i,           \* measure_throughput: iterations of the current loop done
    m_clock,       \* measure_throughput: what time.perf_counter() would return, in ns
    m_start,       \* measure_throughput: the local start
    m_elapsed,     \* measure_throughput: backend -> tf_elapsed / torch_elapsed, in ns
    m_result,      \* measure_throughput: the Result (pair of rates, or exception)
    m_events,      \* measure_throughput: the calls made, in order
    b_backend,     \* verify_batch: "tensorflow" or "pytorch"
    b_pairs,       \* verify_batch: the pairs argument
    b_pc,          \* verify_batch: "ready", "returned", "raised", "idle"
    b_out          \* verify_batch: the Result of the call

conv_vars == <<tf_model, torch_model, state_dict, idx, pc, error, output_file, stdout, events>>
t_vars == <<t_in, t_fn, t_out, t_pc>>
h_vars == <<h_weights, h_state_dict, h_model, h_pc, h_error>>
r_vars == <<_BACKENDS, env, r_last>>
e_vars == <<e_fn, e_training, e_batch, e_call, e_pc, e_exc>>
m_vars == <<m_device, m_repeats, m_batch, m_pc, m_i, m_clock, m_start, m_elapsed, m_result,
            m_events>>
b_vars == <<b_backend, b_pairs, b_pc, b_out>>
vars == <<tf_model, torch_model, state_dict, idx, pc, error, output_file, stdout, events,
          t_in, t_fn, t_out, t_pc,
          h_weights, h_state_dict, h_model, h_pc, h_error,
          _BACKENDS, env, r_last,
          e_fn, e_training, e_batch, e_call, e_pc, e_exc,
          m_device, m_repeats, m_batch, m_pc, m_i, m_clock, m_start, m_elapsed, m_result,
          m_events,
          b_backend, b_pairs, b_pc, b_out>>

----------------------------------------------------------------------------
(* Bounds.  The architecture's sizes are scaled down; every element of a   *)
(* tensor is a distinct token, so a wrong layout shows in the data even    *)
(* where two dimensions are equal.                                         *)

\* filters of each convolution (32 in the source)
Filters == 2
\* kernel height and width (3 in the source)
KernelSize == 2
\* units of the embedding's dense layer (16 in the source)
EmbedUnits == 3
\* flattened size of the feature map (computed from the input shape in the source)
Flattened == 2
\* how many entries of the layer map may name a layer that is not the expected one
MaxFaulty == 1
\* largest dimension and rank of the arrays the transforms are tried on
MaxDim == 2
MaxRank == 4

\* input channels: input_shape[2], which the harness fixes to 1
Channels == 1

----------------------------------------------------------------------------
(* Arrays *)

RECURSIVE Prod(_)
Prod(s) == IF s = <<>> THEN 1 ELSE Head(s) * Prod(Tail(s))

\* Multi-index (0-based components) of the flat 0-based position k in a
\* row-major array of the given shape.
RECURSIVE Unravel(_, _)
Unravel(k, shape) ==
    IF shape = <<>> THEN <<>>
    ELSE LET rest == Prod(Tail(shape))
         IN  <<k \div rest>> \o Unravel(k % rest, Tail(shape))

\* Flat 0-based position of a multi-index.
RECURSIVE Ravel(_, _)
Ravel(ix, shape) ==
    IF shape = <<>> THEN 0
    ELSE Head(ix) * Prod(Tail(shape)) + Ravel(Tail(ix), Tail(shape))

Rank(t) == Len(t.shape)

\* Element of t at a multi-index.
At(t, ix) == t.data[Ravel(ix, t.shape) + 1]

\* A Result is what a call produced: a value, or the exception it raised.
NoTensor == [lib |-> "none", shape |-> <<>>, data |-> <<>>]
Ok(v) == [exc |-> "", msg |-> <<>>, val |-> v]
Raise(e, m) == [exc |-> e, msg |-> m, val |-> NoTensor]

\* np.transpose(a, axes): axis j of the result is axis axes[j] of a.
np_transpose(a, axes) ==
    IF Len(axes) # Rank(a)
    THEN Raise("ValueError", <<"axes don't match array">>)
    ELSE LET n == Rank(a)
             newshape == [j \in 1..n |-> a.shape[axes[j] + 1]]
             src(ix) == [d \in 1..n |-> ix[CHOOSE j \in 1..n : axes[j] + 1 = d]]
         IN  Ok([lib |-> a.lib,
                 shape |-> newshape,
                 data |-> [k \in 1..Prod(newshape) |->
                              At(a, src(Unravel(k - 1, newshape)))]])

\* ndarray.T: the axes reversed, whatever the rank.
np_T(a) ==
    LET n == Rank(a)
    IN  np_transpose(a, [j \in 1..n |-> n - j]).val

\* torch.from_numpy: the same shape and elements, owned by torch.
from_numpy(a) == [lib |-> "torch", shape |-> a.shape, data |-> a.data]

\* the kernel's height and width axes taken in the wrong order
_transpose_conv_swapped(kernel) ==
    LET r == np_transpose(kernel, <<3, 2, 1, 0>>)
    IN  IF r.exc # "" THEN r ELSE Ok(from_numpy(r.val))

_transpose_conv(kernel) ==
    LET r == np_transpose(kernel, <<3, 2, 0, 1>>)
    IN  IF r.exc # "" THEN r ELSE Ok(from_numpy(r.val))

\* the dense kernel handed over in the source's (in, out) layout
_transpose_dense_untransposed(kernel) == Ok(from_numpy(kernel))

_transpose_dense(kernel) == Ok(from_numpy(np_T(kernel)))

----------------------------------------------------------------------------
(* The destination model: SiameseMatcher's state_dict *)

\* A key f"{prefix}.{name}" is the pair <<prefix, name>>.
Key(prefix, name) == <<prefix, name>>

\* Keys of SiameseMatcher(input_shape).state_dict(), in order.
DestKeys ==
    << Key("embedding.features.0", "weight"), Key("embedding.features.0", "bias"),
       Key("embedding.features.3", "weight"), Key("embedding.features.3", "bias"),
       Key("embedding.dense.0", "weight"),    Key("embedding.dense.0", "bias"),
       Key("bn", "weight"), Key("bn", "bias"),
       Key("bn", "running_mean"), Key("bn", "running_var"),
       Key("bn", "num_batches_tracked"),
       Key("fc", "weight"), Key("fc", "bias") >>

DestKeySet == {DestKeys[n] : n \in 1..Len(DestKeys)}

KeyIndex(k) == CHOOSE n \in 1..Len(DestKeys) : DestKeys[n] = k

\* Shape of each parameter and buffer of the destination model.
DestShape(k) ==
    CASE k = Key("embedding.features.0", "weight") -> <<Filters, Channels, KernelSize, KernelSize>>
      [] k = Key("embedding.features.0", "bias")   -> <<Filters>>
      [] k = Key("embedding.features.3", "weight") -> <<Filters, Filters, KernelSize, KernelSize>>
      [] k = Key("embedding.features.3", "bias")   -> <<Filters>>
      [] k = Key("embedding.dense.0", "weight")    -> <<EmbedUnits, Flattened>>
      [] k = Key("embedding.dense.0", "bias")      -> <<EmbedUnits>>
      [] k = Key("bn", "num_batches_tracked")      -> <<>>
      [] k = Key("fc", "weight")                   -> <<1, 1>>
      [] OTHER                                     -> <<1>>

\* The learnable parameters and running statistics a conversion has to supply
\* (num_batches_tracked is a counter, not a weight).
LearnableKeys == DestKeySet \ {Key("bn", "num_batches_tracked")}

\* An array of the given shape whose elements are the distinct tokens
\* <<a, b, 1>>, <<a, b, 2>>, ...
Iota(lib, shape, a, b) ==
    [lib |-> lib, shape |-> shape, data |-> [k \in 1..Prod(shape) |-> <<a, b, k>>]]

\* The freshly constructed model: every value is a token <<0, key, k>> that no
\* source weight carries.
RandomInit == [k \in DestKeySet |-> Iota("torch", DestShape(k), 0, KeyIndex(k))]

----------------------------------------------------------------------------
(* The source model *)

layer_map ==
    << [torch |-> "embedding.features.0", tf |-> "siamese_matcher/embedding_network/conv2d"],
       [torch |-> "embedding.features.3", tf |-> "siamese_matcher/embedding_network/conv2d_1"],
       [torch |-> "embedding.dense.0",    tf |-> "siamese_matcher/embedding_network/dense"],
       [torch |-> "bn",                   tf |-> "batch_normalization"],
       [torch |-> "fc",                   tf |-> "dense_1"] >>

NumEntries == Len(layer_map)

LayerKinds == {"Conv2D", "Dense", "BatchNormalization", "ReLU"}

\* The layer kind the architecture has under the i-th mapped name.
ExpectedKind(i) == <<"Conv2D", "Conv2D", "Dense", "BatchNormalization", "Dense">>[i]

\* Shapes of the weights Keras keeps for that layer: kernels in (h, w, in, out)
\* and (in, out) layout.
ExpectedShapes(i) ==
    LET p == layer_map[i].torch
        w == DestShape(Key(p, "weight"))
    IN  CASE ExpectedKind(i) = "Conv2D" -> << <<w[3], w[4], w[2], w[1]>>, <<w[1]>> >>
          [] ExpectedKind(i) = "Dense"  -> << <<w[2], w[1]>>, <<w[1]>> >>
          [] OTHER                      -> << <<1>>, <<1>>, <<1>>, <<1>> >>

\* Weight lists a layer under the i-th name is tried with: the expected one,
\* none, one short, one extra, and the first tensor with a dimension added,
\* dropped or enlarged.
ShapeVariants == {"expected", "none", "short", "extra", "rank_up", "rank_down", "wider"}

ShapeList(i, v) ==
    LET d == ExpectedShapes(i)
        f == d[1]
    IN  CASE v = "expected"  -> d
          [] v = "none"      -> <<>>
          [] v = "short"     -> SubSeq(d, 1, Len(d) - 1)
          [] v = "extra"     -> d \o << <<1>> >>
          [] v = "rank_up"   -> [d EXCEPT ![1] = f \o <<1>>]
          [] v = "rank_down" -> [d EXCEPT ![1] = SubSeq(f, 1, Len(f) - 1)]
          [] v = "wider"     -> [d EXCEPT ![1] = [f EXCEPT ![1] = @ + 1]]

NoLayer == [kind |-> "absent", weights |-> <<>>]

\* layer.get_weights() of a layer with these shapes: the elements of the j-th
\* tensor of the i-th layer are the tokens <<i, j, k>>.
MakeLayer(i, kind, shapes) ==
    [kind |-> kind,
     weights |-> [j \in 1..Len(shapes) |-> Iota("numpy", shapes[j], i, j)]]

ExpectedLayer(i) == MakeLayer(i, ExpectedKind(i), ExpectedShapes(i))

\* What a mapped name may hold instead: a layer of any kind with any of the
\* weight lists, or nothing.
Variants == (LayerKinds \X ShapeVariants) \cup {<<"absent", "none">>}

VariantLayer(i, v) ==
    IF v[1] = "absent" THEN NoLayer ELSE MakeLayer(i, v[1], ShapeList(i, v[2]))

\* The source model in which the entries of F hold the variants g chooses and
\* every other mapped name holds the architecture's layer.
SourceModel(F, g) ==
    [n \in {layer_map[i].tf : i \in 1..NumEntries} |->
        LET i == CHOOSE i \in 1..NumEntries : layer_map[i].tf = n
        IN  IF i \in F THEN VariantLayer(i, g[i]) ELSE ExpectedLayer(i)]

----------------------------------------------------------------------------
(* convert_verify_net *)

NoError == [exc |-> "", msg |-> <<>>]
NoFile == [written |-> FALSE, path |-> "", content |-> <<>>]
OutputPath == "verify_net.pt"

\* repr of a layer's class, as {type(layer)!r} formats it
ClassRepr(kind) == "<class 'keras.layers." \o kind \o "'>"

\* The exception of "a, b = weights_list" style unpacking of n values into want
\* names, or NoError.
Unpack(n, want) ==
    IF n > want
    THEN [exc |-> "ValueError",
          msg |-> <<"too many values to unpack (expected ", ToString(want), ")">>]
    ELSE IF n < want
    THEN [exc |-> "ValueError",
          msg |-> <<"not enough values to unpack (expected ", ToString(want),
                    ", got ", ToString(n), ")">>]
    ELSE NoError

\* state_dict[key] = value
DictSet(d, key, value) ==
    [k \in (DOMAIN d) \cup {key} |-> IF k = key THEN value ELSE d[k]]

\* Module.load_state_dict(dict), strict: every key of the model whose entry
\* has the model's shape is copied in place; then missing keys, unexpected
\* keys and size mismatches raise one RuntimeError.
Loadable(model, dict) ==
    {k \in DOMAIN model : k \in DOMAIN dict /\ dict[k].shape = model[k].shape}

LoadProblems(model, dict) ==
    [missing    |-> (DOMAIN model) \ (DOMAIN dict),
     unexpected |-> (DOMAIN dict) \ (DOMAIN model),
     mismatch   |-> {k \in (DOMAIN model) \cap (DOMAIN dict) :
                        dict[k].shape # model[k].shape}]

Loaded(model, dict) ==
    [k \in DOMAIN model |->
        IF k \in Loadable(model, dict)
        THEN [model[k] EXCEPT !.data = dict[k].data]
        ELSE model[k]]

\* load_state_dict as a caller that drops the entries of another shape would
\* see it: size mismatches raise nothing.
LoadOk_ignoring_mismatch(model, dict) ==
    LET p == LoadProblems(model, dict)
    IN  p.missing = {} /\ p.unexpected = {}

LoadOk(model, dict) ==
    LET p == LoadProblems(model, dict)
    IN  p.missing = {} /\ p.unexpected = {} /\ p.mismatch = {}

Event(ev, at, ok) == [ev |-> ev, at |-> at, ok |-> ok]

InLoop == pc = "loop" /\ idx <= NumEntries
Entry == layer_map[idx]
Layer == tf_model[Entry.tf]

\* The exception leaves convert_verify_net: nothing after the raising
\* statement runs.
Fail(err) ==
    /\ pc' = "raised"
    /\ error' = err
    /\ events' = Append(events, Event("layer", idx, FALSE))
    /\ UNCHANGED <<tf_model, torch_model, state_dict, idx, output_file, stdout>>

\* The loop body writing each converted tensor straight into the model's
\* own tensors instead of rebinding the dictionary's entries.
Continue_inplace(dict) ==
    /\ state_dict' = dict
    /\ torch_model' = Loaded(torch_model, dict)
    /\ idx' = idx + 1
    /\ events' = Append(events, Event("layer", idx, TRUE))
    /\ UNCHANGED <<tf_model, pc, error, output_file, stdout>>

\* The loop body has run for this entry; the for statement takes the next.
Continue(dict) ==
    /\ state_dict' = dict
    /\ idx' = idx + 1
    /\ events' = Append(events, Event("layer", idx, TRUE))
    /\ UNCHANGED <<tf_model, torch_model, pc, error, output_file, stdout>>

\* line 40: tf_model.get_layer raises for a name the model does not have
GetLayerFails ==
    /\ InLoop
    /\ Layer = NoLayer
    /\ Fail([exc |-> "ValueError", msg |-> <<"No such layer: ", Entry.tf>>])

\* The emptiness test placed after the dispatch on the kind: an empty layer
\* of an unsupported kind raises.
SkipLayer_supported_only ==
    /\ InLoop
    /\ Layer # NoLayer
    /\ Layer.weights = <<>>
    /\ IF Layer.kind \in {"Conv2D", "Dense", "BatchNormalization"}
       THEN Continue(state_dict)
       ELSE Fail([exc |-> "TypeError",
                  msg |-> <<"Unsupported layer type: ", ClassRepr(Layer.kind)>>])

\* lines 42-43: no weights, continue
SkipLayer ==
    /\ InLoop
    /\ Layer # NoLayer
    /\ Layer.weights = <<>>
    /\ Continue(state_dict)

\* lines 44-47
ConvertConv2D ==
    /\ InLoop
    /\ Layer.weights # <<>>
    /\ Layer.kind = "Conv2D"
    /\ LET w == Layer.weights
           u == Unpack(Len(w), 2)
       IN  IF u # NoError THEN Fail(u)
           ELSE LET r == _transpose_conv(w[1])
                IN  IF r.exc # "" THEN Fail([exc |-> r.exc, msg |-> r.msg])
                    ELSE Continue(DictSet(DictSet(state_dict,
                                    Key(Entry.torch, "weight"), r.val),
                                    Key(Entry.torch, "bias"), from_numpy(w[2])))

\* lines 48-51
ConvertDense ==
    /\ InLoop
    /\ Layer.weights # <<>>
    /\ Layer.kind = "Dense"
    /\ LET w == Layer.weights
           u == Unpack(Len(w), 2)
       IN  IF u # NoError THEN Fail(u)
           ELSE LET r == _transpose_dense(w[1])
                IN  IF r.exc # "" THEN Fail([exc |-> r.exc, msg |-> r.msg])
                    ELSE Continue(DictSet(DictSet(state_dict,
                                    Key(Entry.torch, "weight"), r.val),
                                    Key(Entry.torch, "bias"), from_numpy(w[2])))

\* lines 52-57
ConvertBatchNormalization ==
    /\ InLoop
    /\ Layer.weights # <<>>
    /\ Layer.kind = "BatchNormalization"
    /\ LET w == Layer.weights
           u == Unpack(Len(w), 4)
       IN  IF u # NoError THEN Fail(u)
           ELSE Continue(DictSet(DictSet(DictSet(DictSet(state_dict,
                            Key(Entry.torch, "weight"), from_numpy(w[1])),
                            Key(Entry.torch, "bias"), from_numpy(w[2])),
                            Key(Entry.torch, "running_mean"), from_numpy(w[3])),
                            Key(Entry.torch, "running_var"), from_numpy(w[4])))

\* lines 58-59
UnsupportedLayer ==
    /\ InLoop
    /\ Layer.weights # <<>>
    /\ Layer.kind \notin {"Conv2D", "Dense", "BatchNormalization"}
    /\ Fail([exc |-> "TypeError",
             msg |-> <<"Unsupported layer type: ", ClassRepr(Layer.kind)>>])

\* load_state_dict's error caught and dropped: the run goes on to save.
Commit_swallowing ==
    /\ pc = "loop"
    /\ idx = NumEntries + 1
    /\ torch_model' = Loaded(torch_model, state_dict)
    /\ pc' = "save"
    /\ error' = error
    /\ events' = Append(events, Event("commit", 0, LoadOk(torch_model, state_dict)))
    /\ UNCHANGED <<tf_model, state_dict, idx, output_file, stdout>>

\* line 61
Commit ==
    /\ pc = "loop"
    /\ idx = NumEntries + 1
    /\ torch_model' = Loaded(torch_model, state_dict)
    /\ IF LoadOk(torch_model, state_dict)
       THEN /\ pc' = "save"
            /\ error' = error
       ELSE /\ pc' = "raised"
            /\ error' = [exc |-> "RuntimeError",
                         msg |-> <<"Error(s) in loading state_dict for SiameseMatcher">>]
    /\ events' = Append(events, Event("commit", 0, LoadOk(torch_model, state_dict)))
    /\ UNCHANGED <<tf_model, state_dict, idx, output_file, stdout>>

\* line 62: torch.save(torch_model.state_dict(), output)
Save ==
    /\ pc = "save"
    /\ output_file' = [written |-> TRUE, path |-> OutputPath, content |-> torch_model]
    /\ pc' = "print"
    /\ events' = Append(events, Event("save", 0, TRUE))
    /\ UNCHANGED <<tf_model, torch_model, state_dict, idx, error, stdout>>

\* line 63
PrintConfirmation ==
    /\ pc = "print"
    /\ stdout' = Append(stdout, <<"PyTorch weights saved to ", OutputPath>>)
    /\ pc' = "done"
    /\ events' = Append(events, Event("print", 0, TRUE))
    /\ UNCHANGED <<tf_model, torch_model, state_dict, idx, error, output_file>>

TransformIdle ==
    /\ t_in = NoTensor
    /\ t_fn = "none"
    /\ t_out = Ok(NoTensor)
    /\ t_pc = "idle"

\* The parity harness, the registry and the export at rest.
HarnessIdle ==
    /\ h_weights = <<>>
    /\ h_state_dict = <<>>
    /\ h_model = <<>>
    /\ h_pc = 0
    /\ h_error = ""

Unset == "<unset>"
NoBackend == [extractor_cls |-> "", matcher_cls |-> ""]
NoCall == [op |-> "none", name |-> "", exc |-> "", backend |-> NoBackend, names |-> <<>>]

RegistryIdle ==
    /\ _BACKENDS = <<>>
    /\ env = Unset
    /\ r_last = NoCall

NoExport == [called |-> FALSE, args |-> <<>>, input_names |-> <<>>, output_names |-> <<>>,
             dynamic_axes |-> {}, opset_version |-> 0, failure |-> ""]
NoException == [type |-> "", msg |-> "", cause |-> ""]

ExportIdle ==
    /\ e_fn = "none"
    /\ e_training = FALSE
    /\ e_batch = 0
    /\ e_call = NoExport
    /\ e_pc = "idle"
    /\ e_exc = NoException

\* measure_throughput and verify_batch at rest.
NoRates == [exc |-> "", tf |-> <<0, 1>>, torch |-> <<0, 1>>]
ThroughputIdle ==
    /\ m_device = "cpu"
    /\ m_repeats = 0
    /\ m_batch = 0
    /\ m_pc = "idle"
    /\ m_i = 0
    /\ m_clock = 0
    /\ m_start = 0
    /\ m_elapsed = <<0, 0>>
    /\ m_result = NoRates
    /\ m_events = <<>>

NoScores == [exc |-> "", scores |-> <<>>]
BatchIdle ==
    /\ b_backend = "none"
    /\ b_pairs = <<>>
    /\ b_pc = "idle"
    /\ b_out = NoScores

\* The state once lines 26-29 have built both models and taken the
\* destination's state_dict.
Init ==
    /\ \E F \in SUBSET (1..NumEntries) :
          /\ Cardinality(F) <= MaxFaulty
          /\ \E g \in [F -> Variants] : tf_model = SourceModel(F, g)
    /\ torch_model = RandomInit
    /\ state_dict = RandomInit
    /\ idx = 1
    /\ pc = "loop"
    /\ error = NoError
    /\ output_file = NoFile
    /\ stdout = <<>>
    /\ events = <<>>
    /\ TransformIdle
    /\ HarnessIdle
    /\ RegistryIdle
    /\ ExportIdle
    /\ ThroughputIdle
    /\ BatchIdle

Next ==
    \/ GetLayerFails /\ UNCHANGED <<t_vars, h_vars, r_vars, e_vars, m_vars, b_vars>>
    \/ SkipLayer /\ UNCHANGED <<t_vars, h_vars, r_vars, e_vars, m_vars, b_vars>>
    \/ ConvertConv2D /\ UNCHANGED <<t_vars, h_vars, r_vars, e_vars, m_vars, b_vars>>
    \/ ConvertDense /\ UNCHANGED <<t_vars, h_vars, r_vars, e_vars, m_vars, b_vars>>
    \/ ConvertBatchNormalization /\ UNCHANGED <<t_vars, h_vars, r_vars, e_vars, m_vars, b_vars>>
    \/ UnsupportedLayer /\ UNCHANGED <<t_vars, h_vars, r_vars, e_vars, m_vars, b_vars>>
    \/ Commit /\ UNCHANGED <<t_vars, h_vars, r_vars, e_vars, m_vars, b_vars>>
    \/ Save /\ UNCHANGED <<t_vars, h_vars, r_vars, e_vars, m_vars, b_vars>>
    \/ PrintConfirmation /\ UNCHANGED <<t_vars, h_vars, r_vars, e_vars, m_vars, b_vars>>

Spec == Init /\ [][Next]_vars

----------------------------------------------------------------------------
(* The layout transforms on their own: one call of _transpose_conv or of   *)
(* _transpose_dense on an array of any rank up to MaxRank.                 *)

Shapes == UNION {[1..r -> 1..MaxDim] : r \in 0..MaxRank}

Arrays == {Iota("numpy", sh, 1, 1) : sh \in Shapes}

ConverterIdle ==
    /\ tf_model = SourceModel({}, <<>>)
    /\ torch_model = RandomInit
    /\ state_dict = RandomInit
    /\ idx = 1
    /\ pc = "idle"
    /\ error = NoError
    /\ output_file = NoFile
    /\ stdout = <<>>
    /\ events = <<>>

InitTransform ==
    /\ t_in \in Arrays
    /\ t_fn \in {"conv", "dense"}
    /\ t_out = Ok(NoTensor)
    /\ t_pc = "ready"
    /\ ConverterIdle
    /\ HarnessIdle
    /\ RegistryIdle
    /\ ExportIdle
    /\ ThroughputIdle
    /\ BatchIdle

Return(r) ==
    /\ t_out' = r
    /\ t_pc' = IF r.exc # "" THEN "raised" ELSE "returned"
    /\ UNCHANGED <<t_in, t_fn>>

CallTransposeConv ==
    /\ t_pc = "ready"
    /\ t_fn = "conv"
    /\ Return(_transpose_conv(t_in))

CallTransposeDense ==
    /\ t_pc = "ready"
    /\ t_fn = "dense"
    /\ Return(_transpose_dense(t_in))

NextTransform ==
    \/ CallTransposeConv /\ UNCHANGED <<conv_vars, h_vars, r_vars, e_vars, m_vars, b_vars>>
    \/ CallTransposeDense /\ UNCHANGED <<conv_vars, h_vars, r_vars, e_vars, m_vars, b_vars>>

SpecTransform == InitTransform /\ [][NextTransform]_vars

----------------------------------------------------------------------------
(* Claims about the layout transforms (checked under SpecTransform) *)

Ix(n) == 0..(n - 1)

\* C7: for every rank-4 kernel K in layout (height, width, in, out) the
\* convolutional transform returns R of shape (out, in, height, width) with
\* R[o, i, h, w] = K[h, w, i, o] at every index, and permuting R back with the
\* reverse permutation (2, 3, 1, 0) gives K's shape and elements again.
C7_ConvIsAxisPermutation ==
    (t_fn = "conv" /\ t_pc # "ready" /\ Rank(t_in) = 4) =>
        /\ t_pc = "returned"
        /\ LET K == t_in
               R == t_out.val
               H == K.shape[1]
               W == K.shape[2]
               I == K.shape[3]
               O == K.shape[4]
               back == np_transpose(R, <<2, 3, 1, 0>>)
           IN  /\ R.shape = <<O, I, H, W>>
               /\ Len(R.data) = Len(K.data)
               /\ \A h \in Ix(H), w \in Ix(W), i \in Ix(I), o \in Ix(O) :
                     At(R, <<o, i, h, w>>) = At(K, <<h, w, i, o>>)
               /\ back.exc = ""
               /\ back.val.shape = K.shape
               /\ back.val.data = K.data

\* C7 witness: a kernel with height, width and channel counts larger than 1
\* has been transformed.
C7_Witness ==
    /\ t_fn = "conv"
    /\ t_pc = "returned"
    /\ Rank(t_in) = 4
    /\ \A d \in 1..4 : t_in.shape[d] > 1

\* C8: both transforms reject a wrong-rank input: the convolutional one raises
\* for every rank other than 4 and the dense one for every rank other than 2,
\* and neither returns a tensor for such an input.
C8_WrongRankRejected ==
    (/\ t_pc # "ready"
     /\ \/ t_fn = "conv" /\ Rank(t_in) # 4
        \/ t_fn = "dense" /\ Rank(t_in) # 2) =>
        /\ t_pc = "raised"
        /\ t_out.exc # ""
        /\ t_out.val = NoTensor

----------------------------------------------------------------------------
(* Claims about convert_verify_net (checked under Spec) *)

SupportedKinds == {"Conv2D", "Dense", "BatchNormalization"}

\* Number of tensors the dispatch unpacks for a kind.
DeclaredCount(kind) == IF kind = "BatchNormalization" THEN 4 ELSE 2

LayerAt(i) == tf_model[layer_map[i].tf]

\* Entry i has been reached: its iteration has run, to the end or to a raise.
Reached(i) == idx > i \/ (idx = i /\ pc = "raised")

\* The run ended by an exception raised inside the loop.
FailedInLoop ==
    /\ pc = "raised"
    /\ events # <<>>
    /\ events[Len(events)].ev = "layer"

Committed == \E n \in 1..Len(events) : events[n].ev = "commit"

\* C1: when the conversion fails while processing a layer of the mapping, at
\* whatever position, the destination model's parameters are their
\* pre-conversion values, no load_state_dict has happened and no file is written.
C1_FailureLeavesModelUntouched ==
    FailedInLoop =>
        /\ torch_model = RandomInit
        /\ ~Committed
        /\ output_file = NoFile
        /\ stdout = <<>>

\* C1 witness: the last entry of the mapping failed after earlier entries had
\* been written into the dictionary.
C1_Witness ==
    /\ FailedInLoop
    /\ idx = NumEntries
    /\ \A k \in {Key("embedding.features.0", "weight"), Key("bn", "weight")} :
          state_dict[k] # RandomInit[k]

\* C2: a conversion that leaves some learnable parameter of the destination
\* unwritten (its dictionary entry is still the random-initialization value)
\* fails: it never gets past the commit to save the dictionary.
C2_UnwrittenParameterFails ==
    (pc \in {"save", "print", "done"}) =>
        \A k \in LearnableKeys : state_dict[k] # RandomInit[k]

\* C3: a mapped layer of another kind than Conv2D, Dense or BatchNormalization
\* that has weights makes the converter raise an unsupported-layer error whose
\* message names the layer by its source name, with no dictionary entry written
\* for it.
C3_UnsupportedLayerIsNamed ==
    \A i \in 1..NumEntries :
        (/\ Reached(i)
         /\ LayerAt(i) # NoLayer
         /\ LayerAt(i).weights # <<>>
         /\ LayerAt(i).kind \notin SupportedKinds) =>
            /\ idx = i
            /\ pc = "raised"
            /\ error.exc = "TypeError"
            /\ error.msg[1] = "Unsupported layer type: "
            /\ \E n \in 1..Len(error.msg) : error.msg[n] = layer_map[i].tf
            /\ \A k \in DOMAIN state_dict :
                  k[1] = layer_map[i].torch => state_dict[k] = RandomInit[k]

\* C4: a mapped layer of a supported kind whose tensor count is neither zero
\* nor the count declared for the kind makes the conversion fail with the same
\* unsupported-layer error as an unknown kind does, nothing being written for
\* the layer and nothing committed.
C4_CountMismatchIsUnsupported ==
    \A i \in 1..NumEntries :
        (/\ Reached(i)
         /\ LayerAt(i).kind \in SupportedKinds
         /\ Len(LayerAt(i).weights) \notin {0, DeclaredCount(LayerAt(i).kind)}) =>
            /\ idx = i
            /\ pc = "raised"
            /\ error.exc = "TypeError"
            /\ error.msg[1] = "Unsupported layer type: "
            /\ \A k \in DOMAIN state_dict :
                  k[1] = layer_map[i].torch => state_dict[k] = RandomInit[k]
            /\ torch_model = RandomInit
            /\ output_file = NoFile

\* Keys of the dictionary whose tensor has not the shape the destination
\* model has for the key.
ShapeMismatches ==
    {k \in (DOMAIN state_dict) \cap DestKeySet : state_dict[k].shape # DestShape(k)}

\* The loop is over and load_state_dict has been called.
CommitAttempted == idx = NumEntries + 1 /\ pc # "loop"

\* C5: when a converted tensor has not the shape the destination model expects
\* for its key, the commit raises: the run does not go on with the key left
\* out, no file is written and nothing is printed.
C5_ShapeMismatchIsFatal ==
    (CommitAttempted /\ ShapeMismatches # {}) =>
        /\ pc = "raised"
        /\ error.exc = "RuntimeError"
        /\ output_file = NoFile
        /\ stdout = <<>>

\* C5 witness: the commit was attempted with a dictionary holding a tensor of
\* the wrong shape.
C5_Witness ==
    /\ CommitAttempted
    /\ ShapeMismatches # {}
    /\ pc = "raised"

\* C6: a mapped layer that reports no weight tensors is skipped, whatever its
\* kind: the step raises nothing, leaves the dictionary as it is and moves the
\* loop to the next entry.
C6_EmptyLayerIsSkipped ==
    [][(InLoop /\ Layer # NoLayer /\ Layer.weights = <<>>) =>
          /\ pc' = "loop"
          /\ error' = NoError
          /\ idx' = idx + 1
          /\ state_dict' = state_dict
          /\ torch_model' = torch_model]_vars

\* C6 witness: a layer of an unsupported kind without weights has been passed
\* and the loop stands at a later entry of the mapping.
C6_Witness ==
    /\ pc = "loop"
    /\ idx <= NumEntries
    /\ error = NoError
    /\ \E i \in 1..(idx - 1) :
          /\ LayerAt(i).kind = "ReLU"
          /\ LayerAt(i).weights = <<>>
          /\ events[i] = Event("layer", i, TRUE)
          /\ \A k \in DOMAIN state_dict :
                k[1] = layer_map[i].torch => state_dict[k] = RandomInit[k]

\* C9: for a BatchNormalization layer with its four tensors the dictionary
\* holds, under weight, bias, running_mean and running_var, rank-1 tensors
\* with the elements of scale, shift, mean and variance in order.
C9_NormalizationStoredRankOne ==
    \A i \in 1..NumEntries :
        (/\ idx > i
         /\ LayerAt(i).kind = "BatchNormalization"
         /\ Len(LayerAt(i).weights) = 4) =>
            \A j \in 1..4 :
                LET name == <<"weight", "bias", "running_mean", "running_var">>[j]
                    t == state_dict[Key(layer_map[i].torch, name)]
                IN  /\ Rank(t) = 1
                    /\ t.data = LayerAt(i).weights[j].data

\* C10: the run's events are, in order, the mapping's entries one by one, then
\* one commit, then the write of the committed model state, then the printed
\* confirmation; a failure ends the run, so the write and the confirmation
\* happen only after a commit that completed.
C10_OrderOfEvents ==
    /\ Len(events) <= NumEntries + 3
    /\ \A n \in 1..Len(events) :
          /\ n <= NumEntries => events[n].ev = "layer" /\ events[n].at = n
          /\ n = NumEntries + 1 => events[n].ev = "commit"
          /\ n = NumEntries + 2 => events[n].ev = "save"
          /\ n = NumEntries + 3 => events[n].ev = "print"
          /\ ~events[n].ok => n = Len(events)
    /\ output_file.written <=> Len(events) >= NumEntries + 2
    /\ stdout # <<>> <=> Len(events) = NumEntries + 3
    /\ torch_model # RandomInit => Committed
    /\ output_file.written =>
          /\ events[NumEntries + 1].ok
          /\ output_file.content = Loaded(RandomInit, state_dict)
          /\ \A k \in DestKeySet : output_file.content[k].data = state_dict[k].data

\* C10 witness: a run that went through all four stages.
C10_Witness ==
    /\ pc = "done"
    /\ Len(events) = NumEntries + 3
    /\ stdout = << <<"PyTorch weights saved to ", OutputPath>> >>

----------------------------------------------------------------------------
(* The parity harness (test_backend_parity.py, VerifyNetHarness.__init__)  *)
(* beside the converter: both fill a dictionary from the same source       *)
(* weights, the harness by position in the flat weight list.               *)

\* seeds the weights are drawn with
MaxSeed == 1

\* The architecture's layer under the i-th mapped name, with the weights drawn
\* for a seed (other tokens for another seed).
SeededLayer(i, seed) ==
    MakeLayer(i + NumEntries * seed, ExpectedKind(i), ExpectedShapes(i))

SeededModel(seed) ==
    [n \in {layer_map[i].tf : i \in 1..NumEntries} |->
        LET i == CHOOSE i \in 1..NumEntries : layer_map[i].tf = n
        IN  SeededLayer(i, seed)]

\* Model.get_weights(): the layers' weight lists one after the other.
RECURSIVE get_weights(_, _)
get_weights(model, i) ==
    IF i > NumEntries THEN <<>>
    ELSE model[layer_map[i].tf].weights \o get_weights(model, i + 1)

\* ndarray.reshape(-1): the same elements as one axis.
reshape_flat(a) == [lib |-> a.lib, shape |-> <<Prod(a.shape)>>, data |-> a.data]

\* lines 62-77: destination key, position in tf_weights, and what is applied
HarnessAssignments ==
    << [key |-> Key("embedding.features.0", "weight"), pos |-> 0,  op |-> "transpose"],
       [key |-> Key("embedding.features.0", "bias"),   pos |-> 1,  op |-> "copy"],
       [key |-> Key("embedding.features.3", "weight"), pos |-> 2,  op |-> "transpose"],
       [key |-> Key("embedding.features.3", "bias"),   pos |-> 3,  op |-> "copy"],
       [key |-> Key("embedding.dense.0", "weight"),    pos |-> 4,  op |-> "T"],
       [key |-> Key("embedding.dense.0", "bias"),      pos |-> 5,  op |-> "copy"],
       [key |-> Key("bn", "weight"),                   pos |-> 6,  op |-> "reshape"],
       [key |-> Key("bn", "bias"),                     pos |-> 7,  op |-> "reshape"],
       [key |-> Key("bn", "running_mean"),             pos |-> 8,  op |-> "reshape"],
       [key |-> Key("bn", "running_var"),              pos |-> 9,  op |-> "reshape"],
       [key |-> Key("fc", "weight"),                   pos |-> 10, op |-> "T"],
       [key |-> Key("fc", "bias"),                     pos |-> 11, op |-> "copy"] >>

NumAssignments == Len(HarnessAssignments)

\* The right-hand side of one assignment.
HarnessValue(a, weights) ==
    LET w == weights[a.pos + 1]
    IN  CASE a.op = "transpose" ->
                LET r == np_transpose(w, <<3, 2, 0, 1>>)
                IN  IF r.exc # "" THEN r ELSE Ok(from_numpy(r.val))
          [] a.op = "T"       -> Ok(from_numpy(np_T(w)))
          [] a.op = "reshape" -> Ok(from_numpy(reshape_flat(w)))
          [] OTHER            -> Ok(from_numpy(w))

\* one of lines 62-77
HarnessAssign ==
    /\ h_pc \in 1..NumAssignments
    /\ h_error = ""
    /\ LET a == HarnessAssignments[h_pc]
           r == HarnessValue(a, h_weights)
       IN  IF r.exc # ""
           THEN /\ h_error' = r.exc
                /\ UNCHANGED <<h_weights, h_state_dict, h_model, h_pc>>
           ELSE /\ h_state_dict' = DictSet(h_state_dict, a.key, r.val)
                /\ h_pc' = h_pc + 1
                /\ UNCHANGED <<h_weights, h_model, h_error>>

\* line 78: self.torch_model.load_state_dict(state_dict)
HarnessLoad ==
    /\ h_pc = NumAssignments + 1
    /\ h_error = ""
    /\ h_model' = Loaded(h_model, h_state_dict)
    /\ h_error' = IF LoadOk(h_model, h_state_dict) THEN "" ELSE "RuntimeError"
    /\ h_pc' = h_pc + 1
    /\ UNCHANGED <<h_weights, h_state_dict>>

\* Both procedures about to start on the same source model.
InitHarness ==
    /\ \E seed \in 0..MaxSeed :
          /\ tf_model = SeededModel(seed)
          /\ h_weights = get_weights(SeededModel(seed), 1)
    /\ h_state_dict = RandomInit
    /\ h_model = RandomInit
    /\ h_pc = 1
    /\ h_error = ""
    /\ torch_model = RandomInit
    /\ state_dict = RandomInit
    /\ idx = 1
    /\ pc = "loop"
    /\ error = NoError
    /\ output_file = NoFile
    /\ stdout = <<>>
    /\ events = <<>>
    /\ TransformIdle
    /\ RegistryIdle
    /\ ExportIdle
    /\ ThroughputIdle
    /\ BatchIdle

NextHarness ==
    \/ HarnessAssign /\ UNCHANGED <<conv_vars, t_vars, r_vars, e_vars, m_vars, b_vars>>
    \/ HarnessLoad /\ UNCHANGED <<conv_vars, t_vars, r_vars, e_vars, m_vars, b_vars>>
    \/ ConvertConv2D /\ UNCHANGED <<t_vars, h_vars, r_vars, e_vars, m_vars, b_vars>>
    \/ ConvertDense /\ UNCHANGED <<t_vars, h_vars, r_vars, e_vars, m_vars, b_vars>>
    \/ ConvertBatchNormalization /\ UNCHANGED <<t_vars, h_vars, r_vars, e_vars, m_vars, b_vars>>
    \/ Commit /\ UNCHANGED <<t_vars, h_vars, r_vars, e_vars, m_vars, b_vars>>
    \/ Save /\ UNCHANGED <<t_vars, h_vars, r_vars, e_vars, m_vars, b_vars>>
    \/ PrintConfirmation /\ UNCHANGED <<t_vars, h_vars, r_vars, e_vars, m_vars, b_vars>>

SpecHarness == InitHarness /\ [][NextHarness]_vars

\* Keys of a dictionary whose entry is no longer the freshly built model's.
Written(dict) == {k \in DOMAIN dict : k \notin DestKeySet \/ dict[k] # RandomInit[k]}

\* C11: for the VerifyNet architecture the harness's assignments by position
\* and the converter's loop over layer_map write the same destination keys
\* and, key by key, the same tensor (conv kernels permuted (3, 2, 0, 1), dense
\* kernels transposed, the rest copied), so the two dictionaries built from
\* the same source weights are equal, and so are the models loaded from them.
C11_HarnessMatchesConverter ==
    /\ (idx = NumEntries + 1 /\ h_pc > NumAssignments) =>
          /\ h_error = ""
          /\ pc # "raised"
          /\ Written(h_state_dict) = Written(state_dict)
          /\ Written(state_dict) = LearnableKeys
          /\ h_state_dict = state_dict
    /\ (pc \in {"save", "print", "done"} /\ h_pc = NumAssignments + 2) =>
          h_model = torch_model
    /\ \A n \in 1..NumAssignments :
          LET a == HarnessAssignments[n]
          IN  (h_pc > n /\ a.key \in Written(state_dict)) =>
                  h_state_dict[a.key] = state_dict[a.key]

\* C11 witness: both dictionaries are complete and both models loaded.
C11_Witness ==
    /\ idx = NumEntries + 1
    /\ h_pc = NumAssignments + 2
    /\ pc = "done"
    /\ h_error = ""
    /\ h_state_dict[Key("embedding.dense.0", "weight")].shape = <<EmbedUnits, Flattened>>

----------------------------------------------------------------------------
(* The backend registry (fingerflow/__init__.py) *)

\* Names the calls are made with; NoneName stands for an omitted name.
Names == {"dummy", "Dummy", "TensorFlow", "PyTorch"}
NoneName == "<None>"

\* str.lower() on the strings that occur.
Lower(n) ==
    CASE n = "Dummy"      -> "dummy"
      [] n = "TensorFlow" -> "tensorflow"
      [] n = "PyTorch"    -> "pytorch"
      [] OTHER            -> n

\* The strings that occur, in the order Python's < gives them (capitals
\* before small letters).
Alphabetical == <<"Dummy", "PyTorch", "TensorFlow", "dummy", "pytorch", "tensorflow">>

StrLess(a, b) ==
    (CHOOSE i \in 1..Len(Alphabetical) : Alphabetical[i] = a)
        < (CHOOSE i \in 1..Len(Alphabetical) : Alphabetical[i] = b)

\* Classes handed to register_backend, and issubclass on them.
ExtractorArgs == {"_DummyExtractor", "NotExtractor"}
MatcherArgs == {"_DummyMatcher", "Matcher", "NotMatcher"}
IsExtractorSubclass(c) == c \in {"_DummyExtractor", "Extractor", "TorchExtractor", "BaseExtractor"}
IsMatcherSubclass(c) == c \in {"_DummyMatcher", "Matcher", "TorchMatcher", "BaseMatcher"}

Backend(e, m) == [extractor_cls |-> e, matcher_cls |-> m]

\* dict operations on the sequence of items
Item(key, value) == [key |-> key, value |-> value]
DictKeys(d) == [i \in 1..Len(d) |-> d[i].key]
KeySet(d) == {d[i].key : i \in 1..Len(d)}
Has(d, key) == key \in KeySet(d)
Get(d, key) == d[CHOOSE i \in 1..Len(d) : d[i].key = key].value
\* d[key] = value: an existing key keeps its place, a new one goes last
Put(d, key, value) ==
    IF Has(d, key)
    THEN [i \in 1..Len(d) |-> IF d[i].key = key THEN Item(key, value) ELSE d[i]]
    ELSE Append(d, Item(key, value))
\* del d[key]
RECURSIVE Del(_, _)
Del(d, key) ==
    IF d = <<>> THEN <<>>
    ELSE IF Head(d).key = key THEN Tail(d)
    ELSE <<Head(d)>> \o Del(Tail(d), key)

\* sorted(): insertion of each element before the first larger one
RECURSIVE Insert(_, _)
Insert(x, sq) ==
    IF sq = <<>> THEN <<x>>
    ELSE IF StrLess(x, Head(sq)) THEN <<x>> \o sq
    ELSE <<Head(sq)>> \o Insert(x, Tail(sq))

RECURSIVE sorted(_)
sorted(sq) == IF sq = <<>> THEN <<>> ELSE Insert(Head(sq), sorted(Tail(sq)))

\* What a call gives: the exception raised ("" if none), the dict afterwards
\* and the value returned.
Outcome(exc, dict, backend, names) ==
    [exc |-> exc, dict |-> dict, backend |-> backend, names |-> names]

\* the key stored as given, not lowered
register_backend_raw_key(d, name, extractor_cls, matcher_cls, overwrite) ==
    IF ~IsExtractorSubclass(extractor_cls) THEN Outcome("TypeError", d, NoBackend, <<>>)
    ELSE IF ~IsMatcherSubclass(matcher_cls) THEN Outcome("TypeError", d, NoBackend, <<>>)
    ELSE IF ~overwrite /\ Has(d, name) THEN Outcome("ValueError", d, NoBackend, <<>>)
    ELSE Outcome("", Put(d, name, Backend(extractor_cls, matcher_cls)), NoBackend, <<>>)

\* the duplicate test made on the name as given
register_backend_raw_test(d, name, extractor_cls, matcher_cls, overwrite) ==
    IF ~IsExtractorSubclass(extractor_cls) THEN Outcome("TypeError", d, NoBackend, <<>>)
    ELSE IF ~IsMatcherSubclass(matcher_cls) THEN Outcome("TypeError", d, NoBackend, <<>>)
    ELSE IF ~overwrite /\ Has(d, name) THEN Outcome("ValueError", d, NoBackend, <<>>)
    ELSE Outcome("", Put(d, Lower(name), Backend(extractor_cls, matcher_cls)), NoBackend, <<>>)

\* overwrite=True dropping the old item and adding the new one under the
\* name as given
register_backend_readd(d, name, extractor_cls, matcher_cls, overwrite) ==
    IF ~IsExtractorSubclass(extractor_cls) THEN Outcome("TypeError", d, NoBackend, <<>>)
    ELSE IF ~IsMatcherSubclass(matcher_cls) THEN Outcome("TypeError", d, NoBackend, <<>>)
    ELSE IF ~overwrite /\ Has(d, Lower(name)) THEN Outcome("ValueError", d, NoBackend, <<>>)
    ELSE Outcome("", Put(Del(d, Lower(name)), name, Backend(extractor_cls, matcher_cls)),
                 NoBackend, <<>>)

\* the duplicate test made before the class tests
register_backend_name_first(d, name, extractor_cls, matcher_cls, overwrite) ==
    IF ~overwrite /\ Has(d, Lower(name)) THEN Outcome("ValueError", d, NoBackend, <<>>)
    ELSE IF ~IsExtractorSubclass(extractor_cls) THEN Outcome("TypeError", d, NoBackend, <<>>)
    ELSE IF ~IsMatcherSubclass(matcher_cls) THEN Outcome("TypeError", d, NoBackend, <<>>)
    ELSE Outcome("", Put(d, Lower(name), Backend(extractor_cls, matcher_cls)), NoBackend, <<>>)

\* the duplicate test made on the lowered key, the item stored under the name
\* as given
register_backend_store_raw(d, name, extractor_cls, matcher_cls, overwrite) ==
    IF ~IsExtractorSubclass(extractor_cls) THEN Outcome("TypeError", d, NoBackend, <<>>)
    ELSE IF ~IsMatcherSubclass(matcher_cls) THEN Outcome("TypeError", d, NoBackend, <<>>)
    ELSE IF ~overwrite /\ Has(d, Lower(name)) THEN Outcome("ValueError", d, NoBackend, <<>>)
    ELSE Outcome("", Put(d, name, Backend(extractor_cls, matcher_cls)), NoBackend, <<>>)

\* lines 73-82
register_backend(d, name, extractor_cls, matcher_cls, overwrite) ==
    IF ~IsExtractorSubclass(extractor_cls) THEN Outcome("TypeError", d, NoBackend, <<>>)
    ELSE IF ~IsMatcherSubclass(matcher_cls) THEN Outcome("TypeError", d, NoBackend, <<>>)
    ELSE LET key == Lower(name)
         IN  IF ~overwrite /\ Has(d, key) THEN Outcome("ValueError", d, NoBackend, <<>>)
             ELSE Outcome("", Put(d, key, Backend(extractor_cls, matcher_cls)),
                          NoBackend, <<>>)

\* an unknown name passed over in silence
unregister_backend_lenient(d, name) == Outcome("", Del(d, Lower(name)), NoBackend, <<>>)

\* lines 99-106
unregister_backend(d, name) ==
    LET key == Lower(name)
    IN  IF Has(d, key) THEN Outcome("", Del(d, key), NoBackend, <<>>)
        ELSE Outcome("ValueError", d, NoBackend, <<>>)

\* the keys in insertion order
available_backends_unsorted(d) == Outcome("", d, NoBackend, DictKeys(d))

\* line 112
available_backends(d) == Outcome("", d, NoBackend, sorted(DictKeys(d)))

\* the environment variable ignored
ResolveName_default_only(name, environ) ==
    IF name = NoneName THEN "tensorflow" ELSE name

\* lines 131-132
ResolveName(name, environ) ==
    IF name = NoneName
    THEN (IF environ = Unset THEN "tensorflow" ELSE environ)
    ELSE name

\* an unknown name answered with the tensorflow backend when there is one
get_backend_fallback(d, name, environ) ==
    LET n == ResolveName(name, environ)
    IN  IF Has(d, Lower(n)) THEN Outcome("", d, Get(d, Lower(n)), <<>>)
        ELSE IF Has(d, "tensorflow") THEN Outcome("", d, Get(d, "tensorflow"), <<>>)
        ELSE Outcome("ValueError", d, NoBackend, <<>>)

\* lines 131-140
get_backend(d, name, environ) ==
    LET n == ResolveName(name, environ)
    IN  IF Has(d, Lower(n)) THEN Outcome("", d, Get(d, Lower(n)), <<>>)
        ELSE Outcome("ValueError", d, NoBackend, <<>>)

\* A call was made: the dict and the record of the call change with it.
Called(op, name, o) ==
    /\ _BACKENDS' = o.dict
    /\ r_last' = [op |-> op, name |-> name, exc |-> o.exc,
                  backend |-> o.backend, names |-> o.names]
    /\ env' = env

Register(name, extractor_cls, matcher_cls, overwrite) ==
    Called("register", name, register_backend(_BACKENDS, name, extractor_cls, matcher_cls, overwrite))

Unregister(name) == Called("unregister", name, unregister_backend(_BACKENDS, name))

AvailableBackends == Called("available", "", available_backends(_BACKENDS))

GetBackend(name) == Called("get", name, get_backend(_BACKENDS, name, env))

\* lines 21-36: the dict after import, with whichever of the two optional
\* backends could be imported
InitRegistry ==
    /\ \E tf \in BOOLEAN, pt \in BOOLEAN :
          _BACKENDS =
              (IF tf THEN <<Item("tensorflow", Backend("Extractor", "Matcher"))>> ELSE <<>>)
              \o (IF pt THEN <<Item("pytorch", Backend("TorchExtractor", "TorchMatcher"))>>
                  ELSE <<>>)
    /\ env \in {Unset, "PyTorch"}
    /\ r_last = NoCall
    /\ ConverterIdle
    /\ TransformIdle
    /\ HarnessIdle
    /\ ExportIdle
    /\ ThroughputIdle
    /\ BatchIdle

NextRegistry ==
    \/ \E name \in Names, e \in ExtractorArgs, m \in MatcherArgs, ow \in BOOLEAN :
          Register(name, e, m, ow) /\ UNCHANGED <<conv_vars, t_vars, h_vars, e_vars, m_vars, b_vars>>
    \/ \E name \in Names :
          Unregister(name) /\ UNCHANGED <<conv_vars, t_vars, h_vars, e_vars, m_vars, b_vars>>
    \/ AvailableBackends /\ UNCHANGED <<conv_vars, t_vars, h_vars, e_vars, m_vars, b_vars>>
    \/ \E name \in Names \cup {NoneName} :
          GetBackend(name) /\ UNCHANGED <<conv_vars, t_vars, h_vars, e_vars, m_vars, b_vars>>

SpecRegistry == InitRegistry /\ [][NextRegistry]_vars

----------------------------------------------------------------------------
(* Claims about the registry (checked under SpecRegistry) *)

ValidClasses(e, m) == IsExtractorSubclass(e) /\ IsMatcherSubclass(m)

\* get_backend(n) returns normally on this dict
Succeeds(d, n) == get_backend(d, n, env).exc = ""

\* The step is a register or unregister call for the name n, up to case.
TouchesName(n) ==
    /\ r_last'.op \in {"register", "unregister"}
    /\ Lower(r_last'.name) = Lower(n)

Elements(sq) == {sq[i] : i \in 1..Len(sq)}

\* C12: once register_backend(name, E, M) has succeeded, get_backend(n) gives
\* a Backend of E and M for every n equal to name up to letter case and
\* name.lower() is among available_backends(); what get_backend(n) gives
\* changes only by a register or unregister call for that name.
C12_RegisteredIsRetrievable ==
    [][/\ \A name \in Names, e \in ExtractorArgs, m \in MatcherArgs, ow \in BOOLEAN :
             (Register(name, e, m, ow) /\ r_last'.exc = "") =>
                 /\ \A n \in Names :
                       Lower(n) = Lower(name) =>
                           /\ get_backend(_BACKENDS', n, env').exc = ""
                           /\ get_backend(_BACKENDS', n, env').backend = Backend(e, m)
                 /\ Lower(name) \in Elements(available_backends(_BACKENDS').names)
       /\ \A n \in Names :
             ~TouchesName(n) =>
                 /\ get_backend(_BACKENDS', n, env').exc = get_backend(_BACKENDS, n, env).exc
                 /\ get_backend(_BACKENDS', n, env').backend
                        = get_backend(_BACKENDS, n, env).backend]_vars

\* C12 witness: "Dummy" has been registered and is found as "dummy".
C12_Witness ==
    /\ r_last.op = "register"
    /\ r_last.name = "Dummy"
    /\ r_last.exc = ""
    /\ get_backend(_BACKENDS, "dummy", env).backend = Backend("_DummyExtractor", "_DummyMatcher")
    /\ Has(_BACKENDS, "pytorch")

\* C13 as stated: register_backend with overwrite=False on a name already
\* registered (up to case) raises ValueError and leaves the registry as it
\* is, whatever the classes passed.
C13_DuplicateRaisesValueError ==
    [][\A name \in Names, e \in ExtractorArgs, m \in MatcherArgs :
          (Register(name, e, m, FALSE) /\ Has(_BACKENDS, Lower(name))) =>
              /\ r_last'.exc = "ValueError"
              /\ _BACKENDS' = _BACKENDS]_vars

\* C13 amended: with classes that pass the two subclass tests,
\* register_backend with overwrite=False on a name already registered (up to
\* case, the built-in names included) raises ValueError; with or without such
\* classes the call raises and leaves the registry as it is.
C13_DuplicateOfValidClassesRaises ==
    [][\A name \in Names, e \in ExtractorArgs, m \in MatcherArgs :
          (Register(name, e, m, FALSE) /\ Has(_BACKENDS, Lower(name))) =>
              /\ ValidClasses(e, m) => r_last'.exc = "ValueError"
              /\ r_last'.exc # ""
              /\ _BACKENDS' = _BACKENDS]_vars

\* C13 witness: a registration under "TensorFlow" was refused and the
\* built-in entry is still there.
C13_Witness ==
    /\ r_last.op = "register"
    /\ r_last.name = "TensorFlow"
    /\ r_last.exc = "ValueError"
    /\ Has(_BACKENDS, "tensorflow")
    /\ Get(_BACKENDS, "tensorflow") = Backend("Extractor", "Matcher")

\* What C14 asks of a step that replaces the entry of name by Backend(e, m).
Replaced(name, e, m) ==
    /\ r_last'.exc = ""
    /\ get_backend(_BACKENDS', name, env').exc = ""
    /\ get_backend(_BACKENDS', name, env').backend = Backend(e, m)
    /\ KeySet(_BACKENDS') = KeySet(_BACKENDS)
    /\ \A k \in KeySet(_BACKENDS) \ {Lower(name)} :
          Get(_BACKENDS', k) = Get(_BACKENDS, k)

\* C14 as stated: register_backend with overwrite=True on a name already
\* registered succeeds and replaces the entry, whatever the classes passed.
C14_OverwriteReplaces ==
    [][\A name \in Names, e \in ExtractorArgs, m \in MatcherArgs :
          (Register(name, e, m, TRUE) /\ Has(_BACKENDS, Lower(name))) =>
              Replaced(name, e, m)]_vars

\* C14 amended: with classes that pass the two subclass tests,
\* register_backend with overwrite=True on a name already registered succeeds:
\* get_backend(name) then gives the new classes, the set of registered names
\* is the same and every other entry is the same.
C14_OverwriteOfValidClassesReplaces ==
    [][\A name \in Names, e \in ExtractorArgs, m \in MatcherArgs :
          (Register(name, e, m, TRUE) /\ Has(_BACKENDS, Lower(name)) /\ ValidClasses(e, m)) =>
              Replaced(name, e, m)]_vars

\* C14 witness: the built-in tensorflow entry has been replaced where it
\* stood, before the pytorch entry, which is as it was.
C14_Witness ==
    /\ r_last.op = "register"
    /\ r_last.name = "TensorFlow"
    /\ r_last.exc = ""
    /\ Len(_BACKENDS) >= 2
    /\ _BACKENDS[1] = Item("tensorflow", Backend("_DummyExtractor", "_DummyMatcher"))
    /\ _BACKENDS[2] = Item("pytorch", Backend("TorchExtractor", "TorchMatcher"))

\* C15: unregister_backend on a name that is not registered raises ValueError
\* and leaves the registry as it is; so a second unregister of a name right
\* after a successful one raises.
C15_UnregisterUnknownRaises ==
    [][\A name \in Names :
          Unregister(name) =>
              /\ ~Has(_BACKENDS, Lower(name)) =>
                    (r_last'.exc = "ValueError" /\ _BACKENDS' = _BACKENDS)
              /\ (/\ r_last.op = "unregister"
                  /\ r_last.exc = ""
                  /\ Lower(r_last.name) = Lower(name)) => r_last'.exc = "ValueError"]_vars

\* C15 witness: unregistering "dummy" raised while other backends are there.
C15_Witness ==
    /\ r_last.op = "unregister"
    /\ r_last.name = "dummy"
    /\ r_last.exc = "ValueError"
    /\ ~Has(_BACKENDS, "dummy")
    /\ _BACKENDS # <<>>

\* C16: register_backend raises TypeError and leaves the registry as it is
\* whenever the extractor class or the matcher class fails its subclass test,
\* for every name, registered or not, and either value of overwrite.
C16_InvalidClassesRaiseTypeError ==
    [][\A name \in Names, e \in ExtractorArgs, m \in MatcherArgs, ow \in BOOLEAN :
          (Register(name, e, m, ow) /\ ~ValidClasses(e, m)) =>
              /\ r_last'.exc = "TypeError"
              /\ _BACKENDS' = _BACKENDS]_vars

\* C16 witness: a registration under a name already registered raised
\* TypeError.
C16_Witness ==
    /\ r_last.op = "register"
    /\ r_last.exc = "TypeError"
    /\ Has(_BACKENDS, Lower(r_last.name))

DefaultName == IF env = Unset THEN "tensorflow" ELSE env

\* C18: get_backend without a name uses FINGERFLOW_BACKEND when it is set and
\* "tensorflow" otherwise, and does with it what get_backend of that name
\* does: it returns the entry of its lower-case form, or raises ValueError
\* when that is not registered.
C18_OmittedNameUsesEnvironment ==
    (r_last.op = "get" /\ r_last.name = NoneName) =>
        IF Has(_BACKENDS, Lower(DefaultName))
        THEN r_last.exc = "" /\ r_last.backend = Get(_BACKENDS, Lower(DefaultName))
        ELSE r_last.exc = "ValueError" /\ r_last.backend = NoBackend

\* C18 witness: with FINGERFLOW_BACKEND=PyTorch the pytorch backend was
\* returned for an omitted name.
C18_Witness ==
    /\ env = "PyTorch"
    /\ r_last.op = "get"
    /\ r_last.name = NoneName
    /\ r_last.exc = ""
    /\ r_last.backend = Backend("TorchExtractor", "TorchMatcher")
    /\ Has(_BACKENDS, "tensorflow")

-----------------------------------------------------------------------------
(* ONNX export: export_extractor, export_matcher (fingerflow_torch/export.py)
   and TorchVerifyNet.visualize (fingerflow_torch/matcher/verify_net.py).
   One call of one of the three is followed from its entry to its return or
   to the exception that leaves it. *)

\* Largest batch size of the sample tensor handed to an export function.
MaxBatch == 5

ExportFunctions == {"export_extractor", "export_matcher", "visualize"}

\* What torch.onnx.export may raise: an operator the format does not have, a
\* failed shape inference, a failed trace, an output path that cannot be
\* written.
ExportFailures == {"UnsupportedOperatorError", "SymbolicValueError", "RuntimeError", "OSError"}

\* One entry name: {0: "batch"} of a dynamic_axes dictionary.
BatchAxis(name) == <<name, 0, "batch">>

\* The axes a dynamic_axes dictionary marks as dynamic for a name.
DynamicAxesOf(call, name) == {a[2] : a \in {x \in call.dynamic_axes : x[1] = name}}

\* The arguments with which each function calls torch.onnx.export.
ExportArguments(fn, batch) ==
    CASE fn = "export_extractor" ->
            [called |-> TRUE, args |-> <<batch>>,
             input_names |-> <<"image">>,
             output_names |-> <<"boxes", "object", "classes", "pred_wh">>,
             dynamic_axes |-> {BatchAxis("image"), BatchAxis("boxes"), BatchAxis("object")},
             opset_version |-> 13, failure |-> ""]
      [] fn = "export_matcher" ->
            [called |-> TRUE, args |-> <<batch, batch>>,
             input_names |-> <<"anchor", "sample">>,
             output_names |-> <<"score">>,
             dynamic_axes |-> {BatchAxis("anchor"), BatchAxis("sample"), BatchAxis("score")},
             opset_version |-> 13, failure |-> ""]
      [] fn = "visualize" ->
            [called |-> TRUE, args |-> <<batch, batch>>,
             input_names |-> <<"anchor", "sample">>,
             output_names |-> <<"score">>,
             dynamic_axes |-> {BatchAxis("anchor"), BatchAxis("sample"), BatchAxis("score")},
             opset_version |-> 13, failure |-> ""]

\* model.eval(), the first statement of export_extractor and export_matcher.
ModelEval ==
    /\ e_pc = "ready"
    /\ e_fn \in {"export_extractor", "export_matcher"}
    /\ e_training' = FALSE
    /\ e_pc' = "evaluated"
    /\ UNCHANGED <<e_fn, e_batch, e_call, e_exc>>

\* The call of torch.onnx.export: after model.eval() in the two export
\* functions, the first thing inside the try block in visualize.
OnnxExport ==
    /\ \/ e_pc = "evaluated"
       \/ e_pc = "ready" /\ e_fn = "visualize"
    /\ e_call' = ExportArguments(e_fn, e_batch)
    /\ e_pc' = "exporting"
    /\ UNCHANGED <<e_fn, e_training, e_batch, e_exc>>

\* torch.onnx.export returns; nothing follows it in any of the functions.
ExportReturns ==
    /\ e_pc = "exporting"
    /\ e_pc' = "returned"
    /\ UNCHANGED <<e_fn, e_training, e_batch, e_call, e_exc>>

\* torch.onnx.export raises inside export_extractor or export_matcher: there
\* is no handler, the exception leaves the function as it is.
ExportFailsUnhandled(x) ==
    /\ e_pc = "exporting"
    /\ e_fn \in {"export_extractor", "export_matcher"}
    /\ e_call' = [e_call EXCEPT !.failure = x]
    /\ e_exc' = [type |-> x, msg |-> "", cause |-> ""]
    /\ e_pc' = "raised"
    /\ UNCHANGED <<e_fn, e_training, e_batch>>

\* torch.onnx.export raises inside the try block of visualize: except
\* Exception as exc catches it.
ExportFailsCaught(x) ==
    /\ e_pc = "exporting"
    /\ e_fn = "visualize"
    /\ e_call' = [e_call EXCEPT !.failure = x]
    /\ e_exc' = [type |-> x, msg |-> "", cause |-> ""]
    /\ e_pc' = "caught"
    /\ UNCHANGED <<e_fn, e_training, e_batch>>

\* raise RuntimeError("Failed to export VerifyNet to ONNX") from exc
Reraise ==
    /\ e_pc = "caught"
    /\ e_exc' = [type |-> "RuntimeError", msg |-> "Failed to export VerifyNet to ONNX",
                 cause |-> e_exc.type]
    /\ e_pc' = "raised"
    /\ UNCHANGED <<e_fn, e_training, e_batch, e_call>>

\* A call of one of the three functions is about to start: the model is in
\* training or in evaluation mode, the sample has 1..MaxBatch rows (visualize
\* builds its own dummy of one row).
InitExport ==
    /\ ConverterIdle
    /\ TransformIdle
    /\ HarnessIdle
    /\ RegistryIdle
    /\ ThroughputIdle
    /\ BatchIdle
    /\ e_fn \in ExportFunctions
    /\ e_training \in BOOLEAN
    /\ e_batch \in (IF e_fn = "visualize" THEN {1} ELSE 1..MaxBatch)
    /\ e_call = NoExport
    /\ e_pc = "ready"
    /\ e_exc = NoException

NextExport ==
    \/ ModelEval /\ UNCHANGED <<conv_vars, t_vars, h_vars, r_vars, m_vars, b_vars>>
    \/ OnnxExport /\ UNCHANGED <<conv_vars, t_vars, h_vars, r_vars, m_vars, b_vars>>
    \/ ExportReturns /\ UNCHANGED <<conv_vars, t_vars, h_vars, r_vars, m_vars, b_vars>>
    \/ \E x \in ExportFailures :
          ExportFailsUnhandled(x) /\ UNCHANGED <<conv_vars, t_vars, h_vars, r_vars, m_vars, b_vars>>
    \/ \E x \in ExportFailures :
          ExportFailsCaught(x) /\ UNCHANGED <<conv_vars, t_vars, h_vars, r_vars, m_vars, b_vars>>
    \/ Reraise /\ UNCHANGED <<conv_vars, t_vars, h_vars, r_vars, m_vars, b_vars>>

SpecExport == InitExport /\ [][NextExport]_vars

-----------------------------------------------------------------------------
(* Claims about the export (checked under SpecExport) *)

\* The names a call of torch.onnx.export declares, inputs and outputs.
DeclaredNames(call) ==
    {call.input_names[i] : i \in 1..Len(call.input_names)}
        \cup {call.output_names[i] : i \in 1..Len(call.output_names)}

\* C19: whenever an export function has called torch.onnx.export, every input
\* name and every output name it declared is a key of dynamic_axes with axis 0
\* marked dynamic (anchor, sample, score for export_matcher; image, boxes,
\* object, classes, pred_wh for export_extractor).
C19_BatchAxisDynamicOnEveryName ==
    (e_call.called /\ e_fn \in {"export_extractor", "export_matcher"}) =>
        \A n \in DeclaredNames(e_call) : 0 \in DynamicAxesOf(e_call, n)

\* C20: once torch.onnx.export has raised, the call does not return normally,
\* and the exception that leaves the entry point is a wrapping one: it carries
\* a message of its own and the underlying exception as its cause.
C20_ExportFailureWrappedAndReraised ==
    (e_call.failure # "") =>
        /\ e_pc # "returned"
        /\ e_pc = "raised" =>
              /\ e_exc.cause = e_call.failure
              /\ e_exc.msg # ""

-----------------------------------------------------------------------------
(* VerifyNetHarness.measure_throughput (test/test_backend_parity.py).
   Time is counted in nanoseconds, so that the clamp 1e-9 (seconds) is 1; a
   rate is the pair <<items, nanoseconds>> of the division that gives it.
   The clock moves while an inference (or the barrier) runs, by 0 when that
   takes less than the clock can resolve. *)

\* Largest repeats argument, dataset size and advance of the clock in one step.
MaxRepeats == 3
MaxDataset == 2
MaxTick == 1

\* max(a, b)
max(a, b) == IF a >= b THEN a ELSE b

\* max(time.perf_counter() - start, 1e-9), without the clamp
Elapsed_unclamped(now, start) == now - start

\* max(time.perf_counter() - start, 1e-9)
Elapsed(now, start) == max(now - start, 1)

\* repeats * batch_size / elapsed
Rate(repeats, batch_size, elapsed) ==
    IF elapsed = 0
    THEN [exc |-> "ZeroDivisionError", val |-> <<0, 1>>]
    ELSE [exc |-> "", val |-> <<repeats * batch_size, elapsed>>]

\* if self.device.type == "cuda", never true
NeedsBarrier_never(device) == FALSE

\* if self.device.type == "cuda"
NeedsBarrier(device) == device = "cuda"

Logged(ev) == m_events' = Append(m_events, ev)

\* start = time.perf_counter(), before the TensorFlow loop (line 130)
TfStart ==
    /\ m_pc = "tf_start"
    /\ m_start' = m_clock
    /\ m_i' = 0
    /\ Logged("perf_counter")
    /\ m_pc' = "tf_loop"
    /\ UNCHANGED <<m_device, m_repeats, m_batch, m_clock, m_elapsed, m_result>>

\* one self.tf_model.predict(...) of the loop (lines 131-132), taking d ns
TfPredict(d) ==
    /\ m_pc = "tf_loop"
    /\ m_i < m_repeats
    /\ m_i' = m_i + 1
    /\ m_clock' = m_clock + d
    /\ Logged("tf_predict")
    /\ UNCHANGED <<m_device, m_repeats, m_batch, m_pc, m_start, m_elapsed, m_result>>

\* tf_elapsed and tf_throughput (lines 133-134)
TfStop ==
    /\ m_pc = "tf_loop"
    /\ m_i = m_repeats
    /\ Logged("perf_counter")
    /\ LET tf_elapsed == Elapsed(m_clock, m_start)
           tf_throughput == Rate(m_repeats, m_batch, tf_elapsed)
       IN /\ m_elapsed' = <<tf_elapsed, m_elapsed[2]>>
          /\ IF tf_throughput.exc # ""
             THEN /\ m_result' = [exc |-> tf_throughput.exc, tf |-> <<0, 1>>, torch |-> <<0, 1>>]
                  /\ m_pc' = "raised"
             ELSE /\ m_result' = [m_result EXCEPT !.tf = tf_throughput.val]
                  /\ m_pc' = "torch_start"
    /\ UNCHANGED <<m_device, m_repeats, m_batch, m_i, m_clock, m_start>>

\* start = time.perf_counter(), before the PyTorch loop (line 136)
TorchStart ==
    /\ m_pc = "torch_start"
    /\ m_start' = m_clock
    /\ m_i' = 0
    /\ Logged("perf_counter")
    /\ m_pc' = "torch_loop"
    /\ UNCHANGED <<m_device, m_repeats, m_batch, m_clock, m_elapsed, m_result>>

\* one self.torch_model(...) of the loop (lines 138-139), taking d ns
TorchForward(d) ==
    /\ m_pc = "torch_loop"
    /\ m_i < m_repeats
    /\ m_i' = m_i + 1
    /\ m_clock' = m_clock + d
    /\ Logged("torch_forward")
    /\ UNCHANGED <<m_device, m_repeats, m_batch, m_pc, m_start, m_elapsed, m_result>>

\* torch.cuda.synchronize(self.device) (lines 140-141), waiting d ns for the
\* work in flight
Synchronize(d) ==
    /\ m_pc = "torch_loop"
    /\ m_i = m_repeats
    /\ NeedsBarrier(m_device)
    /\ m_clock' = m_clock + d
    /\ Logged("synchronize")
    /\ m_pc' = "torch_stop"
    /\ UNCHANGED <<m_device, m_repeats, m_batch, m_i, m_start, m_elapsed, m_result>>

\* the if of line 140 is false: nothing is called
NoSynchronize ==
    /\ m_pc = "torch_loop"
    /\ m_i = m_repeats
    /\ ~NeedsBarrier(m_device)
    /\ m_pc' = "torch_stop"
    /\ UNCHANGED <<m_device, m_repeats, m_batch, m_i, m_clock, m_start, m_elapsed, m_result,
                   m_events>>

\* torch_elapsed, torch_throughput and the return (lines 142-144)
TorchStop ==
    /\ m_pc = "torch_stop"
    /\ Logged("perf_counter")
    /\ LET torch_elapsed == Elapsed(m_clock, m_start)
           torch_throughput == Rate(m_repeats, m_batch, torch_elapsed)
       IN /\ m_elapsed' = <<m_elapsed[1], torch_elapsed>>
          /\ IF torch_throughput.exc # ""
             THEN /\ m_result' = [exc |-> torch_throughput.exc, tf |-> <<0, 1>>,
                                  torch |-> <<0, 1>>]
                  /\ m_pc' = "raised"
             ELSE /\ m_result' = [m_result EXCEPT !.torch = torch_throughput.val]
                  /\ m_pc' = "returned"
    /\ UNCHANGED <<m_device, m_repeats, m_batch, m_i, m_clock, m_start>>

\* measure_throughput(repeats) is called on a harness of some device and
\* dataset size (np.stack refuses an empty dataset, so there is one item at
\* least); repeats may be 0.
InitThroughput ==
    /\ ConverterIdle
    /\ TransformIdle
    /\ HarnessIdle
    /\ RegistryIdle
    /\ ExportIdle
    /\ BatchIdle
    /\ m_device \in {"cpu", "cuda"}
    /\ m_repeats \in 0..MaxRepeats
    /\ m_batch \in 1..MaxDataset
    /\ m_pc = "tf_start"
    /\ m_i = 0
    /\ m_clock = 0
    /\ m_start = 0
    /\ m_elapsed = <<0, 0>>
    /\ m_result = NoRates
    /\ m_events = <<>>

NextThroughput ==
    \/ TfStart /\ UNCHANGED <<conv_vars, t_vars, h_vars, r_vars, e_vars, b_vars>>
    \/ \E d \in 0..MaxTick :
          TfPredict(d) /\ UNCHANGED <<conv_vars, t_vars, h_vars, r_vars, e_vars, b_vars>>
    \/ TfStop /\ UNCHANGED <<conv_vars, t_vars, h_vars, r_vars, e_vars, b_vars>>
    \/ TorchStart /\ UNCHANGED <<conv_vars, t_vars, h_vars, r_vars, e_vars, b_vars>>
    \/ \E d \in 0..MaxTick :
          TorchForward(d) /\ UNCHANGED <<conv_vars, t_vars, h_vars, r_vars, e_vars, b_vars>>
    \/ \E d \in 0..MaxTick :
          Synchronize(d) /\ UNCHANGED <<conv_vars, t_vars, h_vars, r_vars, e_vars, b_vars>>
    \/ NoSynchronize /\ UNCHANGED <<conv_vars, t_vars, h_vars, r_vars, e_vars, b_vars>>
    \/ TorchStop /\ UNCHANGED <<conv_vars, t_vars, h_vars, r_vars, e_vars, b_vars>>

SpecThroughput == InitThroughput /\ [][NextThroughput]_vars

-----------------------------------------------------------------------------
(* Claims about measure_throughput (checked under SpecThroughput) *)

\* A rate <<items, nanoseconds>> is a strictly positive number.
Positive(rate) == rate[1] > 0 /\ rate[2] > 0

\* C22: a call of measure_throughput with repeats >= 1 (the dataset has one
\* item at least) never raises, and when it has returned both rates are
\* strictly positive, also when the clock did not move between the two
\* readings; the elapsed times it divides by are positive.
C22_ThroughputStrictlyPositive ==
    m_repeats >= 1 /\ m_batch >= 1 =>
        /\ m_pc # "raised"
        /\ m_pc \in {"torch_start", "torch_loop", "torch_stop", "returned"} =>
              m_elapsed[1] >= 1 /\ Positive(m_result.tf)
        /\ m_pc = "returned" =>
              m_elapsed[2] >= 1 /\ Positive(m_result.torch)

\* C22 witness: the call returned after three repeats during which neither
\* clock reading moved, so both elapsed times are the clamp.
C22_Witness ==
    /\ m_pc = "returned"
    /\ m_repeats = 3
    /\ m_clock = 0
    /\ m_elapsed = <<1, 1>>
    /\ Positive(m_result.tf)
    /\ Positive(m_result.torch)

\* Positions of an event in the log.
Positions(ev) == {k \in 1..Len(m_events) : m_events[k] = ev}

\* C23: on a cuda device the barrier is called, once, after every PyTorch
\* inference of the loop and before the clock reading that ends the PyTorch
\* timer (the fourth reading); on another device it is never called.
C23_BarrierBeforeTimerStops ==
    IF m_device = "cuda"
    THEN /\ m_pc \in {"torch_stop", "returned"} =>
               /\ Cardinality(Positions("synchronize")) = 1
               /\ Cardinality(Positions("torch_forward")) = m_repeats
               /\ \A k \in Positions("synchronize") :
                     /\ \A j \in Positions("torch_forward") : j < k
                     /\ Cardinality({j \in Positions("perf_counter") : j < k}) = 3
         /\ m_pc = "returned" =>
               /\ Cardinality(Positions("perf_counter")) = 4
               /\ m_events[Len(m_events)] = "perf_counter"
               /\ m_events[Len(m_events) - 1] = "synchronize"
    ELSE Positions("synchronize") = {}

\* C23 witness: on cuda the call returned after three PyTorch inferences, the
\* barrier and then the last clock reading.
C23_Witness ==
    /\ m_device = "cuda"
    /\ m_pc = "returned"
    /\ m_repeats = 3
    /\ Len(m_events) = 11
    /\ m_events[9] = "torch_forward"
    /\ m_events[10] = "synchronize"
    /\ m_events[11] = "perf_counter"

-----------------------------------------------------------------------------
(* Further claims about the registry (checked under SpecRegistry) *)

\* C24: in every state every key of the registry is its own lower-case form,
\* and no two items have keys that are equal up to letter case.
C24_KeysAreLowerCase ==
    /\ \A k \in KeySet(_BACKENDS) : Lower(k) = k
    /\ \A i, j \in 1..Len(_BACKENDS) :
          Lower(_BACKENDS[i].key) = Lower(_BACKENDS[j].key) => i = j

\* C24 witness: "Dummy" was registered next to the two built-in backends and
\* is held under "dummy".
C24_Witness ==
    /\ r_last.op = "register"
    /\ r_last.name = "Dummy"
    /\ r_last.exc = ""
    /\ KeySet(_BACKENDS) = {"tensorflow", "pytorch", "dummy"}

\* C25: a successful unregister_backend(name) leaves name.lower() absent; an
\* absent key becomes present only by a successful register_backend of that
\* name; and while it is absent get_backend(name) raises ValueError,
\* available_backends() does not list it, and register_backend(name, E, M)
\* with an extractor class E, a matcher class M and overwrite=False succeeds.
\* With "tensorflow" absent and FINGERFLOW_BACKEND unset, get_backend()
\* raises ValueError.
C25_UnregisteredUntilRegisteredAgain ==
    [][/\ \A name \in Names :
             (Unregister(name) /\ r_last'.exc = "") => ~Has(_BACKENDS', Lower(name))
       /\ \A name \in Names :
             (~Has(_BACKENDS, Lower(name)) /\ Has(_BACKENDS', Lower(name))) =>
                 /\ r_last'.op = "register"
                 /\ Lower(r_last'.name) = Lower(name)
                 /\ r_last'.exc = ""
       /\ \A name \in Names :
             ~Has(_BACKENDS, Lower(name)) =>
                 /\ GetBackend(name) =>
                       r_last'.exc = "ValueError" /\ r_last'.backend = NoBackend
                 /\ AvailableBackends => Lower(name) \notin Elements(r_last'.names)
                 /\ \A e \in ExtractorArgs, m \in MatcherArgs :
                       (ValidClasses(e, m) /\ Register(name, e, m, FALSE)) =>
                           /\ r_last'.exc = ""
                           /\ Has(_BACKENDS', Lower(name))
                           /\ Get(_BACKENDS', Lower(name)) = Backend(e, m)
       /\ (~Has(_BACKENDS, "tensorflow") /\ env = Unset /\ GetBackend(NoneName)) =>
             r_last'.exc = "ValueError"]_vars

\* C25 witness: unregister_backend("TensorFlow") has just succeeded with
\* FINGERFLOW_BACKEND unset, the pytorch backend still registered.
C25_Witness ==
    /\ r_last.op = "unregister"
    /\ r_last.name = "TensorFlow"
    /\ r_last.exc = ""
    /\ env = Unset
    /\ ~Has(_BACKENDS, "tensorflow")
    /\ Has(_BACKENDS, "pytorch")

-----------------------------------------------------------------------------
(* verify_batch on the two backends: VerifyNet.verify_fingerprints_batch
   (fingerflow/matcher/verify_net.py) and TorchVerifyNet.batch
   (fingerflow_torch/matcher/verify_net.py).  A fingerprint array is named
   by a number; a batch tensor is the sequence of its rows; the score the
   network gives a row is a token made of the row's anchor and sample. *)

\* Largest number of pairs in one call and number of different arrays.
MaxPairs == 3
MaxItem == 2

\* The pairs a call may be given: lists of <<anchor, sample>>.
PairLists == UNION {[1..n -> (1..MaxItem) \X (1..MaxItem)] : n \in 0..MaxPairs}

\* The network on one row, in inference mode (no row depends on another).
Score(anchor, sample) == <<"score", anchor, sample>>

\* self._verify_inference / self.model on two batches: one score per row.
Inference(anchor_batch, sample_batch) ==
    [i \in 1..Len(anchor_batch) |-> Score(anchor_batch[i], sample_batch[i])]

\* _prepare_pair: each array becomes a batch of one row.
_prepare_pair(anchor, sample) == << <<anchor>>, <<sample>> >>

\* tf.concat(tensors, axis=0)
RECURSIVE concat(_)
concat(tensors) ==
    IF tensors = <<>> THEN <<>> ELSE Head(tensors) \o concat(Tail(tensors))

\* VerifyNet.verify_fingerprints_batch, lines 30-44
verify_fingerprints_batch(pairs) ==
    IF pairs = <<>> THEN [exc |-> "", scores |-> <<>>]
    ELSE LET anchor_tensors == [i \in 1..Len(pairs) |-> _prepare_pair(pairs[i][1], pairs[i][2])[1]]
             sample_tensors == [i \in 1..Len(pairs) |-> _prepare_pair(pairs[i][1], pairs[i][2])[2]]
             predictions == Inference(concat(anchor_tensors), concat(sample_tensors))
         IN  [exc |-> "", scores |-> predictions]

\* zip(*pairs): the tuple of first elements, the tuple of second elements, ...
\* and nothing at all for no pairs.
zip_star(pairs) ==
    IF pairs = <<>> THEN <<>>
    ELSE [k \in 1..Len(pairs[1]) |-> [i \in 1..Len(pairs) |-> pairs[i][k]]]

\* TorchVerifyNet.batch, lines 86-92: anchors, samples = zip(*pairs) needs
\* exactly two tuples; np.stack makes the rows of the batch.
batch(pairs) ==
    LET zipped == zip_star(pairs)
    IN  IF Len(zipped) # 2 THEN [exc |-> "ValueError", scores |-> <<>>]
        ELSE LET anchors == zipped[1]
                 samples == zipped[2]
             IN  [exc |-> "", scores |-> Inference(anchors, samples)]

BatchReturn(o) ==
    /\ b_out' = o
    /\ b_pc' = IF o.exc = "" THEN "returned" ELSE "raised"
    /\ UNCHANGED <<b_backend, b_pairs>>

\* Matcher.verify_batch(pairs) of the TensorFlow backend
TfVerifyBatch ==
    /\ b_pc = "ready"
    /\ b_backend = "tensorflow"
    /\ BatchReturn(verify_fingerprints_batch(b_pairs))

\* TorchMatcher.verify_batch(pairs) of the PyTorch backend
TorchVerifyBatch ==
    /\ b_pc = "ready"
    /\ b_backend = "pytorch"
    /\ BatchReturn(batch(b_pairs))

InitBatch ==
    /\ ConverterIdle
    /\ TransformIdle
    /\ HarnessIdle
    /\ RegistryIdle
    /\ ExportIdle
    /\ ThroughputIdle
    /\ b_backend \in {"tensorflow", "pytorch"}
    /\ b_pairs \in PairLists
    /\ b_pc = "ready"
    /\ b_out = NoScores

NextBatch ==
    \/ TfVerifyBatch /\ UNCHANGED <<conv_vars, t_vars, h_vars, r_vars, e_vars, m_vars>>
    \/ TorchVerifyBatch /\ UNCHANGED <<conv_vars, t_vars, h_vars, r_vars, e_vars, m_vars>>

SpecBatch == InitBatch /\ [][NextBatch]_vars

-----------------------------------------------------------------------------
(* Claims about verify_batch (checked under SpecBatch) *)

\* C26: on either backend a call of verify_batch ends by returning one score
\* per pair, the i-th score that of the i-th pair, for every number of pairs,
\* none included: it does not raise.
C26_OneScorePerPairInOrder ==
    b_pc \in {"returned", "raised"} =>
        /\ b_out.exc = ""
        /\ Len(b_out.scores) = Len(b_pairs)
        /\ \A i \in 1..Len(b_pairs) :
              b_out.scores[i] = Score(b_pairs[i][1], b_pairs[i][2])

====
